---- MODULE Spec2Model ----
(***************************************************************************)
(* hktimer: the NVRAM-backed hap.Store (nvramStore).                       *)
(*                                                                         *)
(* Strings and byte slices are sequences of byte values (0..255), as in    *)
(* Go.  The working copy of the router's NVRAM and its flash (durable)     *)
(* copy are functions from variable names to values.                       *)
(***************************************************************************)
EXTENDS Integers, Sequences, FiniteSets, TLC

----------------------------------------------------------------------------
(* Bounds of the model. *)

\* number of store operations (and power losses) in one behaviour
MaxOps == 2
\* the length of a text found under hkt_configHash, at most
MaxText == 3
\* number of failing nvram commands and power losses in one behaviour
MaxFaults == 1
\* goroutines that call the store at the same time
NumCallers == 2
\* PUT requests that are accepted
MaxPuts == 1
\* seconds that pass one by one
MaxTicks == 1
\* PUT requests that reach t.Reset when the handlers run side by side
MaxResets == 2

----------------------------------------------------------------------------
(* Byte strings. *)

S_hkt      == <<104, 107, 116, 95>>
S_p        == <<112, 95>>
S_pairing  == <<46, 112, 97, 105, 114, 105, 110, 103>>
S_configHash == <<99, 111, 110, 102, 105, 103, 72, 97, 115, 104>>
S_uuid     == <<117, 117, 105, 100>>
S_lan      == <<108, 97, 110>>
NL         == 10
EQ         == 61

Range(s) == {s[i] : i \in 1..Len(s)}

HasPrefix(s, p) == Len(s) >= Len(p) /\ SubSeq(s, 1, Len(p)) = p
HasSuffix(s, x) == Len(s) >= Len(x) /\ SubSeq(s, Len(s) - Len(x) + 1, Len(s)) = x
TrimPrefix(s, p) == IF HasPrefix(s, p) THEN SubSeq(s, Len(p) + 1, Len(s)) ELSE s
TrimSuffix(s, x) == IF HasSuffix(s, x) THEN SubSeq(s, 1, Len(s) - Len(x)) ELSE s

\* strings.TrimSpace, ASCII white space
IsSpace(c) == c \in {9, 10, 11, 12, 13, 32}

RECURSIVE TrimLeft(_)
TrimLeft(s) == IF s # <<>> /\ IsSpace(Head(s)) THEN TrimLeft(Tail(s)) ELSE s

RECURSIVE TrimRight(_)
TrimRight(s) ==
    IF s # <<>> /\ IsSpace(s[Len(s)]) THEN TrimRight(SubSeq(s, 1, Len(s) - 1)) ELSE s

TrimSpace(s) == TrimRight(TrimLeft(s))

\* strings.Split(s, sep) for a one-byte separator
RECURSIVE Split(_, _)
Split(s, sep) ==
    IF \E i \in 1..Len(s) : s[i] = sep
    THEN LET i == CHOOSE j \in 1..Len(s) : s[j] = sep /\ \A h \in 1..(j - 1) : s[h] # sep
         IN  <<SubSeq(s, 1, i - 1)>> \o Split(SubSeq(s, i + 1, Len(s)), sep)
    ELSE <<s>>

\* strings.SplitN(s, sep, 2) for a one-byte separator
SplitN2(s, sep) ==
    IF \E i \in 1..Len(s) : s[i] = sep
    THEN LET i == CHOOSE j \in 1..Len(s) : s[j] = sep /\ \A h \in 1..(j - 1) : s[h] # sep
         IN  <<SubSeq(s, 1, i - 1), SubSeq(s, i + 1, Len(s))>>
    ELSE <<s>>

----------------------------------------------------------------------------
(* encoding/hex *)

IsHexDigit(c) == (c >= 48 /\ c <= 57) \/ (c >= 97 /\ c <= 102) \/ (c >= 65 /\ c <= 70)

FromHexChar(c) ==
    IF c >= 48 /\ c <= 57 THEN c - 48
    ELSE IF c >= 97 /\ c <= 102 THEN c - 97 + 10
    ELSE c - 65 + 10

\* the table "0123456789abcdef"
HexTable(n) == IF n < 10 THEN 48 + n ELSE 97 + (n - 10)

\* hex.EncodeToString
EncodeToString(b) ==
    [i \in 1..(2 * Len(b)) |->
        IF i % 2 = 1 THEN HexTable(b[(i + 1) \div 2] \div 16)
                     ELSE HexTable(b[i \div 2] % 16)]

\* hex.DecodeString: the bytes decoded before the first error, and whether
\* an error (invalid byte or odd length) was met
DecodeString(s) ==
    LET pairs == Len(s) \div 2
        bad   == {i \in 1..pairs : ~IsHexDigit(s[2 * i - 1]) \/ ~IsHexDigit(s[2 * i])}
        n     == IF bad = {} THEN pairs
                 ELSE (CHOOSE i \in bad : \A j \in bad : i <= j) - 1
    IN  [bytes |-> [i \in 1..n |->
                       FromHexChar(s[2 * i - 1]) * 16 + FromHexChar(s[2 * i])],
         err   |-> bad # {} \/ Len(s) % 2 = 1]

----------------------------------------------------------------------------
(* The inputs of the model. *)

\* the values callers pass to Set: "", " ", "J" and " J"
Values == {<<>>, <<32>>, <<74>>, <<32, 74>>}

K_uuid       == S_uuid
K_configHash == S_configHash
\* "4a.pairing": the pairing whose identifier is "J", as hap writes it
K_pairLower  == <<52, 97>> \o S_pairing
\* "4A.pairing": the same identifier in upper-case hex
K_pairUpper  == <<52, 65>> \o S_pairing
\* "zz.pairing": not hex
K_pairBad    == <<122, 122>> \o S_pairing
\* "p_J"
K_pJ         == <<112, 95, 74>>

Keys == {K_uuid, K_configHash, K_pairLower, K_pairUpper, K_pairBad, K_pJ}

\* the pairing key of a controller, the hex form of
\* 310FC158-B29E-4F52-B5B2-A742CDFCE81A
K_pairUUID ==
    <<
       51, 51, 51, 49, 51, 48, 52, 54, 52, 51, 51, 49, 51, 53, 51, 56, 50,
       100, 52, 50, 51, 50, 51, 57, 52, 53, 50, 100, 51, 52, 52, 54, 51, 53,
       51, 50, 50, 100, 52, 50, 51, 53, 52, 50, 51, 50, 50, 100, 52, 49, 51,
       55, 51, 52, 51, 50, 52, 51, 52, 52, 52, 54, 52, 51, 52, 53, 51, 56,
       51, 49, 52, 49
    >> \o S_pairing

\* the keys that are read
GetKeys == Keys \cup {K_pairUUID}

\* ".pairing" and "g"
Suffixes == {S_pairing, <<103>>}

----------------------------------------------------------------------------
(* The state. *)

VARIABLES
    nvram,        \* working copy of the NVRAM: variable name -> value
    flash,        \* durable copy, what survives a power loss
    commitCount,  \* number of "nvram commit" calls made
    last,         \* the last store operation, its arguments and its results
    nops,         \* operations performed
    pairingMuts,  \* pairing-suffixed Set/Delete calls whose set/unset succeeded
    live,         \* keys Set and not Deleted since, by successful calls
    deleted,      \* keys Deleted with no Set of the same key since
    lastMut,      \* the last Set or Delete call
    faults,       \* nvram commands that failed and power losses so far
    mu,           \* the RWMutex of the store: its writer and its readers
    caller,       \* the goroutines in a store operation: where each one is
    now,          \* the clock, in seconds since the start of main
    ticks,        \* seconds that have passed one by one
    timer,        \* the time.Timer: armed or not, its instant, its channel
    end,          \* SecondsTimer.end
    endGen,       \* the arming made by the Reset call that stored end
    handler,      \* the HTTP handlers: where each one is, and its request
    resp,         \* the answer that is being sent, with the body it answers
    gor,          \* the goroutine of main that waits for the timer
    switchOn,     \* the On characteristic of the HomeKit switch
    ctxDone,      \* the context of main is cancelled
    mainpc        \* where main is

storeVars == <<nvram, flash, commitCount, last, nops, pairingMuts, live,
               deleted, lastMut, faults>>
lockVars  == <<mu, caller>>
timerVars == <<now, ticks, timer, end, endGen, handler, resp, gor, switchOn,
               ctxDone, mainpc>>
vars == <<storeVars, lockVars, timerVars>>

NoOp == [op |-> "none", key |-> <<>>, value |-> <<>>, nkey |-> <<>>,
         encoded |-> <<>>, raw |-> <<>>, err |-> "nil", ret |-> <<>>,
         keys |-> <<>>, fail |-> "none", calls |-> <<>>]

----------------------------------------------------------------------------
(* The nvram command line tool behind the wrappers. *)

Put(f, k, v) == [x \in (DOMAIN f) \cup {k} |-> IF x = k THEN v ELSE f[x]]
Drop(f, k)   == [x \in (DOMAIN f) \ {k} |-> f[x]]

\* nvramGet: the tool prints the value and a newline; the wrapper trims
nvramGet(nv, key) ==
    TrimSpace(IF key \in DOMAIN nv THEN nv[key] \o <<NL>> ELSE <<>>)

\* nvramSet: "nvram set key=value"; the tool takes the name up to the first "="
nvramSet(nv, key, value) ==
    LET arg   == key \o <<EQ>> \o value
        parts == SplitN2(arg, EQ)
    IN  Put(nv, parts[1], parts[2])

\* nvramUnset
nvramUnset(nv, key) == Drop(nv, key)

\* nvramCommit: the working copy becomes the durable copy
nvramCommit(nv) == nv

\* nvramShow: every variable as a name=value line
RECURSIVE ShowLines(_, _)
ShowLines(nv, names) ==
    IF names = {} THEN <<>>
    ELSE LET k == CHOOSE x \in names : TRUE
         IN  k \o <<EQ>> \o nv[k] \o <<NL>> \o ShowLines(nv, names \ {k})

nvramShow(nv) == ShowLines(nv, DOMAIN nv)

----------------------------------------------------------------------------
(* nvramStore *)

\* the hex form of a pairing name kept as it is
nvramKeyKeepsHex(key) ==
    IF HasSuffix(key, S_pairing)
    THEN S_hkt \o S_p \o TrimSuffix(key, S_pairing)
    ELSE S_hkt \o key

nvramKey(key) ==
    IF HasSuffix(key, S_pairing)
    THEN LET hexName == TrimSuffix(key, S_pairing)
             name    == DecodeString(hexName)
         IN  IF name.err THEN S_hkt \o key
             ELSE S_hkt \o S_p \o name.bytes
    ELSE S_hkt \o key

\* every value hex-encoded, whatever the key
EncodeValueAll(key, value) == EncodeToString(value)

\* the representation chosen by looking at the value
EncodeValueByContent(key, value) ==
    IF key = S_configHash \/ \E i \in 1..Len(value) : value[i] < 33
    THEN EncodeToString(value) ELSE value

\* Set, the choice of representation
EncodeValue(key, value) ==
    IF key = S_configHash THEN EncodeToString(value) ELSE value

\* a commit for every key
CommitsOnAlways(key) == TRUE

\* a commit only for pairing keys whose hex part decodes
CommitsOnValidHex(key) ==
    /\ HasSuffix(key, S_pairing)
    /\ ~DecodeString(TrimSuffix(key, S_pairing)).err

\* Set and Delete, the decision to commit
CommitsOn(key) == HasSuffix(key, S_pairing)

\* Set that drops the error of nvramCommit
SetResultIgnoresCommitErr(nv, fl, key, value, setOk, commitOk) ==
    LET nkey    == nvramKey(key)
        encoded == EncodeValue(key, value)
        nv2     == nvramSet(nv, nkey, encoded)
    IN  IF ~setOk
        THEN [nvram |-> nv, flash |-> fl, commits |-> 0, err |-> "set",
              nkey |-> nkey, encoded |-> encoded, calls |-> <<"set">>]
        ELSE [nvram |-> nv2,
              flash |-> IF CommitsOn(key) /\ commitOk THEN nvramCommit(nv2) ELSE fl,
              commits |-> IF CommitsOn(key) THEN 1 ELSE 0,
              err |-> "nil",
              nkey |-> nkey, encoded |-> encoded,
              calls |-> IF CommitsOn(key) THEN <<"set", "commit">>
                        ELSE <<"set">>]

\* Set that commits a pairing key although nvramSet failed
SetResultCommitsAnyway(nv, fl, key, value, setOk, commitOk) ==
    LET nkey    == nvramKey(key)
        encoded == EncodeValue(key, value)
        nv2     == IF setOk THEN nvramSet(nv, nkey, encoded) ELSE nv
    IN  IF CommitsOn(key)
        THEN [nvram |-> nv2,
              flash |-> IF commitOk THEN nvramCommit(nv2) ELSE fl,
              commits |-> 1,
              err |-> IF ~setOk THEN "set"
                      ELSE IF commitOk THEN "nil" ELSE "commit",
              nkey |-> nkey, encoded |-> encoded,
              calls |-> <<"set", "commit">>]
        ELSE [nvram |-> nv2, flash |-> fl, commits |-> 0,
              err |-> IF setOk THEN "nil" ELSE "set",
              nkey |-> nkey, encoded |-> encoded, calls |-> <<"set">>]

\* Set that takes the value back when nvramCommit fails
SetResultRollsBack(nv, fl, key, value, setOk, commitOk) ==
    LET nkey    == nvramKey(key)
        encoded == EncodeValue(key, value)
        nv2     == nvramSet(nv, nkey, encoded)
    IN  IF ~setOk
        THEN [nvram |-> nv, flash |-> fl, commits |-> 0, err |-> "set",
              nkey |-> nkey, encoded |-> encoded, calls |-> <<"set">>]
        ELSE IF CommitsOn(key)
        THEN [nvram |-> IF commitOk THEN nv2 ELSE nv,
              flash |-> IF commitOk THEN nvramCommit(nv2) ELSE fl,
              commits |-> 1,
              err |-> IF commitOk THEN "nil" ELSE "commit",
              nkey |-> nkey, encoded |-> encoded,
              calls |-> <<"set", "commit">>]
        ELSE [nvram |-> nv2, flash |-> fl, commits |-> 0, err |-> "nil",
              nkey |-> nkey, encoded |-> encoded, calls |-> <<"set">>]

\* Set that calls neither set nor commit when the variable already holds the
\* value
SetResultSkipsUnchanged(nv, fl, key, value, setOk, commitOk) ==
    LET nkey    == nvramKey(key)
        encoded == EncodeValue(key, value)
        nv2     == nvramSet(nv, nkey, encoded)
    IN  IF ~setOk
        THEN [nvram |-> nv, flash |-> fl, commits |-> 0, err |-> "set",
              nkey |-> nkey, encoded |-> encoded, calls |-> <<"set">>]
        ELSE IF nv2 = nv
        THEN [nvram |-> nv, flash |-> fl, commits |-> 0, err |-> "nil",
              nkey |-> nkey, encoded |-> encoded, calls |-> <<>>]
        ELSE IF CommitsOn(key)
        THEN [nvram |-> nv2,
              flash |-> IF commitOk THEN nvramCommit(nv2) ELSE fl,
              commits |-> 1,
              err |-> IF commitOk THEN "nil" ELSE "commit",
              nkey |-> nkey, encoded |-> encoded,
              calls |-> <<"set", "commit">>]
        ELSE [nvram |-> nv2, flash |-> fl, commits |-> 0, err |-> "nil",
              nkey |-> nkey, encoded |-> encoded, calls |-> <<"set">>]

\* Set(key, value) on working copy nv and flash fl, where the set and the
\* commit commands succeed or fail as setOk and commitOk say
SetResult(nv, fl, key, value, setOk, commitOk) ==
    LET nkey    == nvramKey(key)
        encoded == EncodeValue(key, value)
        nv2     == nvramSet(nv, nkey, encoded)
    IN  IF ~setOk
        THEN [nvram |-> nv, flash |-> fl, commits |-> 0, err |-> "set",
              nkey |-> nkey, encoded |-> encoded, calls |-> <<"set">>]
        ELSE IF CommitsOn(key)
        THEN [nvram |-> nv2,
              flash |-> IF commitOk THEN nvramCommit(nv2) ELSE fl,
              commits |-> 1,
              err |-> IF commitOk THEN "nil" ELSE "commit",
              nkey |-> nkey, encoded |-> encoded,
              calls |-> <<"set", "commit">>]
        ELSE [nvram |-> nv2, flash |-> fl, commits |-> 0, err |-> "nil",
              nkey |-> nkey, encoded |-> encoded, calls |-> <<"set">>]

\* Get that returns the stored text of configHash undecoded
GetResultNoDecode(nv, key, getOk) ==
    LET nkey  == nvramKey(key)
        value == nvramGet(nv, nkey)
    IN  IF ~getOk
        THEN [raw |-> <<>>, err |-> "tool", ret |-> <<>>, nkey |-> nkey,
              calls |-> <<"get">>]
        ELSE IF value = <<>>
        THEN [raw |-> value, err |-> "notfound", ret |-> <<>>, nkey |-> nkey,
              calls |-> <<"get">>]
        ELSE [raw |-> value, err |-> "nil", ret |-> value, nkey |-> nkey,
              calls |-> <<"get">>]

\* Get that reports a failed nvramGet as a missing entry
GetResultHidesToolError(nv, key, getOk) ==
    LET nkey  == nvramKey(key)
        value == IF getOk THEN nvramGet(nv, nkey) ELSE <<>>
    IN  IF value = <<>>
        THEN [raw |-> value, err |-> "notfound", ret |-> <<>>, nkey |-> nkey,
              calls |-> <<"get">>]
        ELSE IF key = S_configHash
        THEN LET d == DecodeString(value)
             IN  [raw |-> value, err |-> IF d.err THEN "decode" ELSE "nil",
                  ret |-> d.bytes, nkey |-> nkey, calls |-> <<"get">>]
        ELSE [raw |-> value, err |-> "nil", ret |-> value, nkey |-> nkey,
              calls |-> <<"get">>]

\* Get that returns no bytes with the error of hex.DecodeString
GetResultNilOnDecodeError(nv, key, getOk) ==
    LET nkey  == nvramKey(key)
        value == nvramGet(nv, nkey)
    IN  IF ~getOk
        THEN [raw |-> <<>>, err |-> "tool", ret |-> <<>>, nkey |-> nkey,
              calls |-> <<"get">>]
        ELSE IF value = <<>>
        THEN [raw |-> value, err |-> "notfound", ret |-> <<>>, nkey |-> nkey,
              calls |-> <<"get">>]
        ELSE IF key = S_configHash
        THEN LET d == DecodeString(value)
             IN  [raw |-> value, err |-> IF d.err THEN "decode" ELSE "nil",
                  ret |-> IF d.err THEN <<>> ELSE d.bytes, nkey |-> nkey,
                  calls |-> <<"get">>]
        ELSE [raw |-> value, err |-> "nil", ret |-> value, nkey |-> nkey,
              calls |-> <<"get">>]

\* Get(key)
GetResult(nv, key, getOk) ==
    LET nkey  == nvramKey(key)
        value == nvramGet(nv, nkey)
    IN  IF ~getOk
        THEN [raw |-> <<>>, err |-> "tool", ret |-> <<>>, nkey |-> nkey,
              calls |-> <<"get">>]
        ELSE IF value = <<>>
        THEN [raw |-> value, err |-> "notfound", ret |-> <<>>, nkey |-> nkey,
              calls |-> <<"get">>]
        ELSE IF key = S_configHash
        THEN LET d == DecodeString(value)
             IN  [raw |-> value, err |-> IF d.err THEN "decode" ELSE "nil",
                  ret |-> d.bytes, nkey |-> nkey, calls |-> <<"get">>]
        ELSE [raw |-> value, err |-> "nil", ret |-> value, nkey |-> nkey,
              calls |-> <<"get">>]

\* Delete that never commits
DeleteResultNoCommit(nv, fl, key, unsetOk, commitOk) ==
    LET nkey == nvramKey(key)
        nv2  == nvramUnset(nv, nkey)
    IN  IF ~unsetOk
        THEN [nvram |-> nv, flash |-> fl, commits |-> 0, err |-> "tool",
              nkey |-> nkey, calls |-> <<"unset">>]
        ELSE [nvram |-> nv2, flash |-> fl, commits |-> 0, err |-> "nil",
              nkey |-> nkey, calls |-> <<"unset">>]

\* Delete that commits a pairing key although nvram unset failed
DeleteResultCommitsAfterFailedUnset(nv, fl, key, unsetOk, commitOk) ==
    LET nkey == nvramKey(key)
        nv2  == IF unsetOk THEN nvramUnset(nv, nkey) ELSE nv
    IN  IF CommitsOn(key)
        THEN [nvram |-> nv2,
              flash |-> IF commitOk THEN nvramCommit(nv2) ELSE fl,
              commits |-> 1,
              err |-> IF ~unsetOk THEN "tool"
                      ELSE IF commitOk THEN "nil" ELSE "commit",
              nkey |-> nkey, calls |-> <<"unset", "commit">>]
        ELSE [nvram |-> nv2, flash |-> fl, commits |-> 0,
              err |-> IF unsetOk THEN "nil" ELSE "tool",
              nkey |-> nkey, calls |-> <<"unset">>]

\* Delete(key)
DeleteResult(nv, fl, key, unsetOk, commitOk) ==
    LET nkey == nvramKey(key)
        nv2  == nvramUnset(nv, nkey)
    IN  IF ~unsetOk
        THEN [nvram |-> nv, flash |-> fl, commits |-> 0, err |-> "tool",
              nkey |-> nkey, calls |-> <<"unset">>]
        ELSE IF CommitsOn(key)
        THEN [nvram |-> nv2,
              flash |-> IF commitOk THEN nvramCommit(nv2) ELSE fl,
              commits |-> 1,
              err |-> IF commitOk THEN "nil" ELSE "commit",
              nkey |-> nkey, calls |-> <<"unset", "commit">>]
        ELSE [nvram |-> nv2, flash |-> fl, commits |-> 0, err |-> "nil",
              nkey |-> nkey, calls |-> <<"unset">>]

\* the rebuilt key without its suffix
ReverseKeyNoSuffix(nkey) ==
    LET uuidStr == TrimPrefix(nkey, S_hkt \o S_p)
    IN  EncodeToString(uuidStr)

\* KeysWithSuffix, the original key rebuilt from the name of a pairing variable
ReverseKey(nkey) ==
    LET uuidStr == TrimPrefix(nkey, S_hkt \o S_p)
    IN  EncodeToString(uuidStr) \o S_pairing

\* KeysWithSuffix, the loop over the lines of nvram show
RECURSIVE KeysOfLines(_, _)
KeysOfLines(lines, suffix) ==
    IF lines = <<>> THEN <<>>
    ELSE LET line  == Head(lines)
             rest  == KeysOfLines(Tail(lines), suffix)
             parts == SplitN2(line, EQ)
             nkey  == parts[1]
         IN  IF line = <<>> THEN rest
             ELSE IF Len(parts) # 2 THEN rest
             ELSE IF ~HasPrefix(nkey, S_hkt) THEN rest
             ELSE IF suffix = S_pairing /\ HasPrefix(nkey, S_hkt \o S_p)
             THEN LET originalKey == ReverseKey(nkey)
                  IN  <<originalKey>> \o rest
             ELSE LET key == TrimPrefix(nkey, S_hkt)
                  IN  IF HasSuffix(key, suffix) THEN <<key>> \o rest ELSE rest

\* a KeysWithSuffix that, for ".pairing", keeps only the variables with the
\* p_ sub-prefix
KeysWithSuffixResultSubPrefixOnly(nv, suffix, showOk) ==
    LET all == KeysOfLines(Split(nvramShow(nv), NL), suffix)
        sub(k) == HasPrefix(nvramKey(k), S_hkt \o S_p)
    IN  IF ~showOk THEN [keys |-> <<>>, err |-> "tool", calls |-> <<"show">>]
        ELSE [keys |-> IF suffix = S_pairing THEN SelectSeq(all, sub) ELSE all,
              err |-> "nil", calls |-> <<"show">>]

\* KeysWithSuffix(suffix)
KeysWithSuffixResult(nv, suffix, showOk) ==
    IF ~showOk THEN [keys |-> <<>>, err |-> "tool", calls |-> <<"show">>]
    ELSE [keys |-> KeysOfLines(Split(nvramShow(nv), NL), suffix), err |-> "nil",
          calls |-> <<"show">>]

----------------------------------------------------------------------------
(* Behaviours. *)

\* a router with one variable of its own, lan=J, and nothing of the store
StoreStart ==
    /\ nvram = [x \in {S_lan} |-> <<74>>]
    /\ flash = [x \in {S_lan} |-> <<74>>]
    /\ commitCount = 0
    /\ last = NoOp
    /\ nops = 0
    /\ pairingMuts = 0
    /\ live = {}
    /\ deleted = {}
    /\ lastMut = NoOp
    /\ faults = 0

\* no caller of the store
LockUnused ==
    /\ mu = [w |-> 0, readers |-> {}]
    /\ caller = <<>>

\* no timer and no HTTP server
TimerUnused ==
    /\ now = 0
    /\ ticks = 0
    /\ timer = [armed |-> FALSE, when |-> 0, gen |-> 0, c |-> -1]
    /\ end = 0
    /\ endGen = 0
    /\ handler = <<>>
    /\ resp = <<>>
    /\ gor = [pc |-> "exit", gen |-> 0]
    /\ switchOn = [on |-> FALSE, gen |-> 0]
    /\ ctxDone = FALSE
    /\ mainpc = "none"

Init == StoreStart /\ LockUnused /\ TimerUnused

Set(key, value) ==
    /\ nops < MaxOps
    /\ \E setOk \in BOOLEAN :
       \E commitOk \in (IF setOk /\ CommitsOn(key) THEN BOOLEAN ELSE {TRUE}) :
         LET r   == SetResult(nvram, flash, key, value, setOk, commitOk)
             rec == [NoOp EXCEPT !.op = "Set", !.key = key, !.value = value,
                                 !.nkey = r.nkey, !.encoded = r.encoded,
                                 !.err = r.err, !.calls = r.calls,
                                 !.fail = IF ~setOk THEN "set"
                                          ELSE IF ~commitOk THEN "commit"
                                          ELSE "none"]
         IN  /\ r.err = "nil" \/ faults < MaxFaults
             /\ nvram' = r.nvram
             /\ flash' = r.flash
             /\ commitCount' = commitCount + r.commits
             /\ last' = rec
             /\ lastMut' = rec
             /\ pairingMuts' = IF setOk /\ HasSuffix(key, S_pairing)
                               THEN pairingMuts + 1 ELSE pairingMuts
             /\ live' = IF r.err = "nil" THEN live \cup {key} ELSE live
             /\ deleted' = deleted \ {key}
             /\ faults' = IF r.err = "nil" THEN faults ELSE faults + 1
    /\ nops' = nops + 1
    /\ UNCHANGED <<lockVars, timerVars>>

Get(key) ==
    /\ nops < MaxOps
    /\ \E getOk \in BOOLEAN :
         LET r == GetResult(nvram, key, getOk)
         IN  /\ getOk \/ faults < MaxFaults
             /\ last' = [NoOp EXCEPT !.op = "Get", !.key = key, !.nkey = r.nkey,
                                     !.raw = r.raw, !.err = r.err, !.ret = r.ret,
                                     !.calls = r.calls,
                                     !.fail = IF getOk THEN "none" ELSE "get"]
             /\ faults' = IF getOk THEN faults ELSE faults + 1
    /\ nops' = nops + 1
    /\ UNCHANGED <<lockVars, timerVars>>
    /\ UNCHANGED <<nvram, flash, commitCount, pairingMuts, live, deleted, lastMut>>

Delete(key) ==
    /\ nops < MaxOps
    /\ \E unsetOk \in BOOLEAN :
       \E commitOk \in (IF unsetOk /\ CommitsOn(key) THEN BOOLEAN ELSE {TRUE}) :
         LET r   == DeleteResult(nvram, flash, key, unsetOk, commitOk)
             rec == [NoOp EXCEPT !.op = "Delete", !.key = key, !.nkey = r.nkey,
                                 !.err = r.err, !.calls = r.calls,
                                 !.fail = IF ~unsetOk THEN "unset"
                                          ELSE IF ~commitOk THEN "commit"
                                          ELSE "none"]
         IN  /\ r.err = "nil" \/ faults < MaxFaults
             /\ nvram' = r.nvram
             /\ flash' = r.flash
             /\ commitCount' = commitCount + r.commits
             /\ last' = rec
             /\ lastMut' = rec
             /\ pairingMuts' = IF unsetOk /\ HasSuffix(key, S_pairing)
                               THEN pairingMuts + 1 ELSE pairingMuts
             /\ live' = IF r.err = "nil" THEN live \ {key} ELSE live
             /\ deleted' = IF r.err = "nil" THEN deleted \cup {key} ELSE deleted
             /\ faults' = IF r.err = "nil" THEN faults ELSE faults + 1
    /\ nops' = nops + 1
    /\ UNCHANGED <<lockVars, timerVars>>

KeysWithSuffix(suffix) ==
    /\ nops < MaxOps
    /\ \E showOk \in BOOLEAN :
         LET r == KeysWithSuffixResult(nvram, suffix, showOk)
         IN  /\ showOk \/ faults < MaxFaults
             /\ last' = [NoOp EXCEPT !.op = "KeysWithSuffix", !.key = suffix,
                                     !.err = r.err, !.keys = r.keys,
                                     !.calls = r.calls,
                                     !.fail = IF showOk THEN "none" ELSE "show"]
             /\ faults' = IF r.err = "nil" THEN faults ELSE faults + 1
    /\ nops' = nops + 1
    /\ UNCHANGED <<lockVars, timerVars>>
    /\ UNCHANGED <<nvram, flash, commitCount, pairingMuts, live, deleted, lastMut>>

\* power is lost and the router restarts from flash
PowerLoss ==
    /\ nops < MaxOps
    /\ faults < MaxFaults
    /\ nvram' = flash
    /\ last' = [NoOp EXCEPT !.op = "PowerLoss"]
    /\ lastMut' = NoOp
    /\ live' = {}
    /\ deleted' = {}
    /\ faults' = faults + 1
    /\ nops' = nops + 1
    /\ UNCHANGED <<flash, commitCount, pairingMuts>>
    /\ UNCHANGED <<lockVars, timerVars>>

Next ==
    \/ \E k \in Keys, v \in Values : Set(k, v)
    \/ \E k \in GetKeys : Get(k)
    \/ \E k \in Keys : Delete(k)
    \/ \E s \in Suffixes : KeysWithSuffix(s)
    \/ PowerLoss

Spec == Init /\ [][Next]_vars

TypeOK ==
    /\ commitCount \in 0..MaxOps
    /\ nops \in 0..MaxOps
    /\ live \subseteq Keys
    /\ deleted \subseteq Keys
    /\ faults \in 0..MaxFaults
    /\ last.fail \in {"none", "set", "unset", "get", "show", "commit"}

----------------------------------------------------------------------------
(* Properties. *)

IsPairing(key) == HasSuffix(key, S_pairing)

\* the last mutation was a successful Set of the key that the last
\* operation, a Get whose nvram get did not fail, reads
GetAfterSet ==
    /\ last.op = "Get"
    /\ last.err # "tool"
    /\ lastMut.op = "Set"
    /\ lastMut.err = "nil"
    /\ lastMut.key = last.key

NoOuterSpace(v) == v # <<>> /\ ~IsSpace(v[1]) /\ ~IsSpace(v[Len(v)])

C3_NoCommitWithoutPairing ==
    [][(/\ nops' = nops + 1
        /\ \/ last'.op \in {"Get", "KeysWithSuffix"}
           \/ last'.op \in {"Set", "Delete"} /\ ~IsPairing(last'.key))
          => commitCount' = commitCount]_vars

C3_Witness ==
    /\ {K_uuid, K_configHash} \subseteq live
    /\ nops = MaxOps
    /\ commitCount = 0

C5_Original ==
    (/\ last.op = "KeysWithSuffix"
     /\ last.key = S_pairing
     /\ last.err = "nil"
     /\ faults = 0)
        => Range(last.keys) = {k \in live : IsPairing(k)}

\* C6 as stated: for a pairing-suffixed key whose part before ".pairing"
\* hex-decodes, the reverse transform of the name nvramKey gives is the key.
C6_Original ==
    (/\ last.op = "Set"
     /\ IsPairing(last.key)
     /\ ~DecodeString(TrimSuffix(last.key, S_pairing)).err)
        => ReverseKey(last.nkey) = last.key

LowerHexDigits == (48..57) \cup (97..102)
LowerHexVal(c) == IF c <= 57 THEN c - 48 ELSE c - 87

\* s is the lower-case hex text of the bytes v
IsLowerHexOf(s, v) ==
    /\ Len(s) = 2 * Len(v)
    /\ \A i \in 1..Len(s) : s[i] \in LowerHexDigits
    /\ \A i \in 1..Len(v) :
          LowerHexVal(s[2 * i - 1]) * 16 + LowerHexVal(s[2 * i]) = v[i]

ConfigHashStoredAsHex ==
    (last.op = "Set" /\ last.key = S_configHash /\ last.err = "nil")
        => /\ (S_hkt \o S_configHash) \in DOMAIN nvram
           /\ IsLowerHexOf(nvram[S_hkt \o S_configHash], last.value)

\* C7 as stated: Set("configHash", v) stores the lower-case hex of v under
\* hkt_configHash and a following Get("configHash") returns v, for every v.
C7_Original ==
    /\ ConfigHashStoredAsHex
    /\ (GetAfterSet /\ last.key = S_configHash)
          => (last.err = "nil" /\ last.ret = lastMut.value)

\* C7, amended: Set("configHash", v) stores the lower-case hex of v under
\* hkt_configHash, and a following Get("configHash") returns v when v is not
\* empty.
C7_ConfigHashRoundTrip ==
    /\ ConfigHashStoredAsHex
    /\ (GetAfterSet /\ last.key = S_configHash /\ lastMut.value # <<>>)
          => (last.err = "nil" /\ last.ret = lastMut.value)

C7_Witness ==
    /\ GetAfterSet
    /\ last.key = S_configHash
    /\ lastMut.value = <<32, 74>>
    /\ last.ret = lastMut.value
    /\ last.raw # lastMut.value

\* C8 as stated: after a successful Delete(k), a Get(k) with no Set(k, _) in
\* between returns a not-found error.
C8_Original ==
    \A k \in deleted : GetResult(nvram, k, TRUE).err = "notfound"

\* C9 as stated: a Set or Delete of a key k1 leaves the result of Get(k2)
\* unchanged for every other key k2.
C9_Original ==
    [][(nops' = nops + 1 /\ last'.op \in {"Set", "Delete"})
          => \A k2 \in Keys \ {last'.key} :
                GetResult(nvram', k2, TRUE) = GetResult(nvram, k2, TRUE)]_vars

----------------------------------------------------------------------------

\* the last operation was a KeysWithSuffix whose nvram show did not fail
Listed == last.op = "KeysWithSuffix" /\ last.err = "nil"

\* the value of a variable is empty or white space only
Blank(v) == TrimSpace(v) = <<>>

\* C11 as stated: every key returned by KeysWithSuffix, for any suffix and
\* any reachable namespace, can be passed to Get, and that Get succeeds.
C11_Original ==
    Listed => \A i \in 1..Len(last.keys) :
                 GetResult(nvram, last.keys[i], TRUE).err = "nil"

\* C11, amended: every key returned by KeysWithSuffix names, through
\* nvramKey, a variable of the namespace, and a Get of it whose nvram get
\* does not fail succeeds when the value of that variable is not empty and
\* not white space only.
C11_ListedKeysReadable ==
    Listed => \A i \in 1..Len(last.keys) :
                 LET k == last.keys[i]
                 IN  /\ nvramKey(k) \in DOMAIN nvram
                     /\ ~Blank(nvram[nvramKey(k)])
                            => GetResult(nvram, k, TRUE).err = "nil"

\* a KeysWithSuffix(".pairing") has returned the key of a readable pairing
C11_Witness ==
    /\ Listed
    /\ last.key = S_pairing
    /\ \E i \in 1..Len(last.keys) :
         /\ last.keys[i] = K_pairLower
         /\ GetResult(nvram, K_pairLower, TRUE).ret = <<74>>

\* C12: when nvram set fails, Set returns the error that wraps it, runs no
\* commit, also for a pairing key, and makes no other call of the tool.
C12_FailedSetStops ==
    [][(nops' = nops + 1 /\ last'.op = "Set" /\ last'.fail = "set")
          => /\ last'.err = "set"
             /\ last'.calls = <<"set">>
             /\ commitCount' = commitCount
             /\ flash' = flash]_vars

\* nvram set has failed in a Set of a pairing key
C12_Witness ==
    /\ last.op = "Set"
    /\ last.fail = "set"
    /\ IsPairing(last.key)
    /\ last.err = "set"

\* C13: when nvram commit fails after a set or an unset that succeeded, the
\* operation returns the error of the commit and the change stays: the
\* working copy has the new value, or has lost the key, flash is as it was,
\* and a Get that follows reads what it would read had the commit succeeded.
C13_CommitFailureKeepsMutation ==
    [][(nops' = nops + 1 /\ last'.fail = "commit")
          => /\ last'.err = "commit"
             /\ flash' = flash
             /\ last'.op = "Set" =>
                  /\ last'.nkey \in DOMAIN nvram'
                  /\ nvram'[last'.nkey] = last'.encoded
                  /\ GetResult(nvram', last'.key, TRUE) =
                       GetResult(nvramSet(nvram, last'.nkey, last'.encoded),
                                 last'.key, TRUE)
                  /\ NoOuterSpace(last'.value) =>
                       /\ GetResult(nvram', last'.key, TRUE).err = "nil"
                       /\ GetResult(nvram', last'.key, TRUE).ret = last'.value
             /\ last'.op = "Delete" =>
                  /\ last'.nkey \notin DOMAIN nvram'
                  /\ GetResult(nvram', last'.key, TRUE).err = "notfound"]_vars

\* the commit of a Set of a pairing key has failed and the working copy has
\* a value that flash has not
C13_Witness ==
    /\ last.op = "Set"
    /\ last.fail = "commit"
    /\ last.value = <<74>>
    /\ last.nkey \in DOMAIN nvram
    /\ last.nkey \notin DOMAIN flash

\* C14: Get returns the not-found error exactly when nvram get succeeds with
\* an empty string, which is what it prints for a key that is absent or has
\* an empty value, and returns the error of nvram get itself when that
\* fails; the two errors differ and neither comes with a value.
C14_NotFoundAndToolError ==
    last.op = "Get" =>
        /\ last.err = "notfound" <=> (last.fail = "none" /\ last.raw = <<>>)
        /\ last.err = "tool" <=> last.fail = "get"
        /\ last.fail = "none" /\ last.nkey \notin DOMAIN nvram
               => last.err = "notfound"
        /\ last.fail = "none" /\ last.nkey \in DOMAIN nvram
               /\ nvram[last.nkey] = <<>>
               => last.err = "notfound"
        /\ last.err \in {"notfound", "tool"} => last.ret = <<>>

\* a Get has found the variable of its key with an empty value
C14_Witness ==
    /\ last.op = "Get"
    /\ last.fail = "none"
    /\ last.nkey \in DOMAIN nvram
    /\ nvram[last.nkey] = <<>>
    /\ last.err = "notfound"

\* C16: for a pairing key whose hex part decodes to n bytes nvramKey returns
\* a name of n + 6 characters: 42 for a UUID of 36 characters, and never
\* more than 64 for an identifier of that size.
C16_PhysicalKeyLength ==
    (/\ last.op \in {"Set", "Get", "Delete"}
     /\ IsPairing(last.key)
     /\ ~DecodeString(TrimSuffix(last.key, S_pairing)).err)
        => LET n == Len(TrimSuffix(last.key, S_pairing)) \div 2
           IN  /\ Len(last.nkey) = n + 6
               /\ n = 36 => Len(last.nkey) = 42
               /\ n <= 36 => Len(last.nkey) <= 64

\* the key of a controller with a UUID of 36 characters has been read
C16_Witness ==
    /\ last.op = "Get"
    /\ last.key = K_pairUUID
    /\ Len(TrimSuffix(last.key, S_pairing)) = 72
    /\ Len(last.nkey) = 42

----------------------------------------------------------------------------
(* The lock of the store, with goroutines that call it at the same time. *)

Callers == 1..NumCallers

\* the operations of the store; a Set or a Delete of a pairing key commits
StoreOps ==
    {[name |-> n, pairing |-> b] : n \in {"Set", "Delete"}, b \in BOOLEAN}
        \cup {[name |-> n, pairing |-> FALSE] : n \in {"Get", "KeysWithSuffix"}}

Idle == [pc |-> "idle", op |-> [name |-> "none", pairing |-> FALSE]]

\* every operation with RLock
LockModeAllShared(name) == "shared"

\* Lock or RLock, as the first statement of each operation has it
LockMode(name) ==
    IF name \in {"Set", "Delete"} THEN "exclusive" ELSE "shared"

\* the caller holds the lock: it is between its Lock or RLock and its
\* deferred Unlock or RUnlock
InCS(p) == caller[p].pc \in {"call", "commit", "ret"}

LockInit ==
    /\ StoreStart
    /\ mu = [w |-> 0, readers |-> {}]
    /\ caller = [p \in Callers |-> Idle]
    /\ TimerUnused

\* a goroutine calls an operation of the store
Call(p, o) ==
    /\ caller[p].pc = "idle"
    /\ caller' = [caller EXCEPT ![p] = [pc |-> "lock", op |-> o]]
    /\ UNCHANGED <<mu, storeVars, timerVars>>

\* mu.Lock(), first part: the writer is announced and new readers wait
LockBegin(p) ==
    /\ caller[p].pc = "lock"
    /\ LockMode(caller[p].op.name) = "exclusive"
    /\ mu.w = 0
    /\ mu' = [mu EXCEPT !.w = p]
    /\ caller' = [caller EXCEPT ![p].pc = "drain"]
    /\ UNCHANGED <<storeVars, timerVars>>

\* mu.Lock(), second part: the readers that were inside have left
LockEnd(p) ==
    /\ caller[p].pc = "drain"
    /\ mu.readers = {}
    /\ caller' = [caller EXCEPT ![p].pc = "call"]
    /\ UNCHANGED <<mu, storeVars, timerVars>>

\* an RLock that does not wait for the writer
RLockIgnoresWriter(p) ==
    /\ caller[p].pc = "lock"
    /\ LockMode(caller[p].op.name) = "shared"
    /\ mu' = [mu EXCEPT !.readers = @ \cup {p}]
    /\ caller' = [caller EXCEPT ![p].pc = "call"]
    /\ UNCHANGED <<storeVars, timerVars>>

\* mu.RLock()
RLock(p) ==
    /\ caller[p].pc = "lock"
    /\ LockMode(caller[p].op.name) = "shared"
    /\ mu.w = 0
    /\ mu' = [mu EXCEPT !.readers = @ \cup {p}]
    /\ caller' = [caller EXCEPT ![p].pc = "call"]
    /\ UNCHANGED <<storeVars, timerVars>>

\* the nvram command of the operation: set, get, unset or show; a commit
\* follows when it succeeded for a Set or a Delete of a pairing key
ToolCall(p) ==
    /\ caller[p].pc = "call"
    /\ \E ok \in BOOLEAN :
         caller' = [caller EXCEPT ![p].pc =
                       IF ok /\ caller[p].op.pairing THEN "commit" ELSE "ret"]
    /\ UNCHANGED <<mu, storeVars, timerVars>>

\* nvram commit
ToolCommit(p) ==
    /\ caller[p].pc = "commit"
    /\ caller' = [caller EXCEPT ![p].pc = "ret"]
    /\ UNCHANGED <<mu, storeVars, timerVars>>

\* the return of the operation, with its deferred Unlock or RUnlock
Return(p) ==
    /\ caller[p].pc = "ret"
    /\ mu' = IF LockMode(caller[p].op.name) = "exclusive"
             THEN [mu EXCEPT !.w = 0]
             ELSE [mu EXCEPT !.readers = @ \ {p}]
    /\ caller' = [caller EXCEPT ![p] = Idle]
    /\ UNCHANGED <<storeVars, timerVars>>

LockNext ==
    \/ \E p \in Callers, o \in StoreOps : Call(p, o)
    \/ \E p \in Callers : LockBegin(p)
    \/ \E p \in Callers : LockEnd(p)
    \/ \E p \in Callers : RLock(p)
    \/ \E p \in Callers : ToolCall(p)
    \/ \E p \in Callers : ToolCommit(p)
    \/ \E p \in Callers : Return(p)

SpecLock == LockInit /\ [][LockNext]_vars

\* C15 as stated: while a KeysWithSuffix is inside its critical section no
\* other operation of the store, a Get or another KeysWithSuffix included,
\* is inside its own.
C15_Original ==
    \A p, q \in Callers :
        (p # q /\ InCS(p) /\ caller[p].op.name = "KeysWithSuffix") => ~InCS(q)

\* C15, amended: Get and KeysWithSuffix hold the lock of the store in shared
\* mode, Set and Delete hold it exclusively: two operations are inside their
\* critical sections at the same time only when each is a Get or a
\* KeysWithSuffix, so no Set and no Delete is inside while a KeysWithSuffix
\* is.
C15_WritersExclusive ==
    \A p, q \in Callers :
        (p # q /\ InCS(p) /\ InCS(q))
            => /\ caller[p].op.name \in {"Get", "KeysWithSuffix"}
               /\ caller[q].op.name \in {"Get", "KeysWithSuffix"}

\* a KeysWithSuffix and a Get are inside their critical sections together
C15_Witness ==
    \E p, q \in Callers :
        /\ InCS(p) /\ caller[p].op.name = "KeysWithSuffix"
        /\ InCS(q) /\ caller[q].op.name = "Get"

----------------------------------------------------------------------------
(* The timer, the HTTP handler of /timer and the goroutine of main. *)

minTimerSeconds     == 0
maxTimerSeconds     == 86400 * 30
maxRequestBodyBytes == 1024
\* time.Hour, in seconds
Hour                == 3600

Handlers == {1, 2}

\* a request body: the length of the JSON value the decoder has to read,
\* whether it is well-formed JSON, whether it has the field "seconds",
\* whether that field is an integer, its value, and whether there is a field
\* that inputTimer does not have
Object(n) == [bytes |-> 13, wellFormed |-> TRUE, hasSeconds |-> TRUE,
              isInt |-> TRUE, seconds |-> n, extra |-> FALSE]

B_missing   == [Object(0) EXCEPT !.bytes = 2, !.hasSeconds = FALSE]
B_malformed == [Object(0) EXCEPT !.bytes = 11, !.wellFormed = FALSE]
B_wrongType == [Object(0) EXCEPT !.bytes = 26, !.isInt = FALSE]
B_unknown   == [Object(10) EXCEPT !.bytes = 30, !.extra = TRUE]
B_empty     == [Object(0) EXCEPT !.bytes = 0, !.wellFormed = FALSE,
                                 !.hasSeconds = FALSE]
B_oversized == [Object(60) EXCEPT !.bytes = 2027]

SecondsInputs == {-1, 0, 1, maxTimerSeconds, maxTimerSeconds + 1}

\* the bodies of the requests of the specification with fairness: one that
\* fires at once, the longest one, and one that is rejected
LiveBodies == {Object(0), Object(maxTimerSeconds), B_malformed}

Bodies ==
    {Object(n) : n \in SecondsInputs}
        \cup {B_missing, B_malformed, B_wrongType, B_unknown, B_empty,
              B_oversized}

\* MaxBytesReader and decoder.Decode with DisallowUnknownFields
Decode(b) ==
    IF b.bytes = 0 THEN [err |-> TRUE, Seconds |-> 0]
    ELSE IF b.bytes > maxRequestBodyBytes THEN [err |-> TRUE, Seconds |-> 0]
    ELSE IF ~b.wellFormed THEN [err |-> TRUE, Seconds |-> 0]
    ELSE IF b.extra THEN [err |-> TRUE, Seconds |-> 0]
    ELSE IF b.hasSeconds /\ ~b.isInt THEN [err |-> TRUE, Seconds |-> 0]
    ELSE [err |-> FALSE, Seconds |-> IF b.hasSeconds THEN b.seconds ELSE 0]

\* the PUT branch with an upper bound that is not allowed itself
PutOutcomeMaxExcluded(b) ==
    LET jsonData == Decode(b)
    IN  IF jsonData.err
        THEN [status |-> 400, text |-> "Invalid request format", secs |-> 0]
        ELSE IF jsonData.Seconds < minTimerSeconds
        THEN [status |-> 400, text |-> "Timer must be positive", secs |-> 0]
        ELSE IF jsonData.Seconds >= maxTimerSeconds
        THEN [status |-> 400, text |-> "Timer exceeds maximum duration",
              secs |-> 0]
        ELSE [status |-> 200, text |-> "success", secs |-> jsonData.Seconds]

\* the PUT branch without its upper bound
PutOutcomeNoMax(b) ==
    LET jsonData == Decode(b)
    IN  IF jsonData.err
        THEN [status |-> 400, text |-> "Invalid request format", secs |-> 0]
        ELSE IF jsonData.Seconds < minTimerSeconds
        THEN [status |-> 400, text |-> "Timer must be positive", secs |-> 0]
        ELSE [status |-> 200, text |-> "success", secs |-> jsonData.Seconds]

\* the PUT branch of timerHandler up to the call of t.Reset: the answer of
\* a request that is turned down, or status 200 and the seconds to set
PutOutcome(b) ==
    LET jsonData == Decode(b)
    IN  IF jsonData.err
        THEN [status |-> 400, text |-> "Invalid request format", secs |-> 0]
        ELSE IF jsonData.Seconds < minTimerSeconds
        THEN [status |-> 400, text |-> "Timer must be positive", secs |-> 0]
        ELSE IF jsonData.Seconds > maxTimerSeconds
        THEN [status |-> 400, text |-> "Timer exceeds maximum duration",
              secs |-> 0]
        ELSE [status |-> 200, text |-> "success", secs |-> jsonData.Seconds]

\* a Stop that reports the timer as stopped and leaves it armed
TimerStopLeavesArmed(t) ==
    [timer |-> t, ret |-> t.armed \/ t.c # -1]

\* time.Timer.Stop: the timer no longer fires and its channel is empty; the
\* result is true when the timer was armed or its expiry was not received
TimerStop(t) ==
    [timer |-> [t EXCEPT !.armed = FALSE, !.c = -1],
     ret   |-> t.armed \/ t.c # -1]

\* a Reset that leaves the timer stopped
TimerResetNotArmed(t, n, d) ==
    [t EXCEPT !.armed = FALSE, !.when = n + d, !.gen = @ + 1, !.c = -1]

\* a Reset that leaves an expiry that was sent and not received in the channel
TimerResetKeepsChannel(t, n, d) ==
    [t EXCEPT !.armed = TRUE, !.when = n + d, !.gen = @ + 1]

\* time.Timer.Reset(d) at instant n
TimerReset(t, n, d) ==
    [t EXCEPT !.armed = TRUE, !.when = n + d, !.gen = @ + 1, !.c = -1]

\* SecondsTimer.TimeRemaining at instant n with the stored end time e:
\* e.Sub(n) when that is positive, 0 otherwise
TimeRemaining(e, n) ==
    LET remaining == e - n
    IN  IF remaining > 0 THEN remaining ELSE 0

\* main that leaves the timer of NewSecondsTimer running
StartupLeftRunning(t) == t

\* main, t.Stop() after NewSecondsTimer(time.Hour)
Startup(t) == TimerStop(t).timer

NoRequest == [pc |-> "idle", body |-> B_empty, gen |-> 0]
NoAnswer  == [body |-> B_empty, status |-> 0, text |-> ""]

\* main after t := NewSecondsTimer(time.Hour)
TimerInit ==
    /\ StoreStart
    /\ LockUnused
    /\ now = 0
    /\ ticks = 0
    /\ timer = [armed |-> TRUE, when |-> Hour, gen |-> 0, c |-> -1]
    /\ end = Hour
    /\ endGen = 0
    /\ handler = [h \in Handlers |-> NoRequest]
    /\ resp = NoAnswer
    /\ gor = [pc |-> "none", gen |-> 0]
    /\ switchOn = [on |-> FALSE, gen |-> 0]
    /\ ctxDone = FALSE
    /\ mainpc = "created"

\* main: t.Stop(), then the goroutine, the handler and the server start
MainStop ==
    /\ mainpc = "created"
    /\ timer' = Startup(timer)
    /\ mainpc' = "running"
    /\ gor' = [gor EXCEPT !.pc = "select"]
    /\ UNCHANGED <<now, ticks, end, endGen, handler, switchOn, ctxDone, resp>>
    /\ UNCHANGED <<storeVars, lockVars>>

\* one second passes
Tick ==
    /\ ticks < MaxTicks
    /\ now' = now + 1
    /\ ticks' = ticks + 1
    /\ UNCHANGED <<timer, end, endGen, handler, gor, switchOn, ctxDone, mainpc, resp>>
    /\ UNCHANGED <<storeVars, lockVars>>

\* time passes until the instant of the timer
Elapse ==
    /\ timer.armed
    /\ timer.when > now
    /\ now' = timer.when
    /\ UNCHANGED <<ticks, timer, end, endGen, handler, gor, switchOn, ctxDone, mainpc,
                   resp>>
    /\ UNCHANGED <<storeVars, lockVars>>

\* the runtime sends the expiry of the timer on its channel
Expire ==
    /\ timer.armed
    /\ now >= timer.when
    /\ timer' = [timer EXCEPT !.armed = FALSE, !.c = timer.gen]
    /\ UNCHANGED <<now, ticks, end, endGen, handler, gor, switchOn, ctxDone, mainpc,
                   resp>>
    /\ UNCHANGED <<storeVars, lockVars>>

\* the handlers that are inside t.Reset, before s.timer.Reset
InFlight == {h \in Handlers : handler[h].pc \in {"stop", "drain", "reset"}}

\* a PUT /timer arrives, at the first handler that is free, and is decoded and validated: it is answered with
\* 400, or it goes on to t.Reset
HandlePut(h, b) ==
    /\ mainpc = "running"
    /\ resp.status = 0
    /\ handler[h].pc = "idle"
    /\ \A g \in Handlers : g < h => handler[g].pc # "idle"
    /\ PutOutcome(b).status = 200
           => timer.gen + Cardinality(InFlight) < MaxPuts
    /\ LET o == PutOutcome(b)
       IN  IF o.status = 200
           THEN /\ handler' = [handler EXCEPT ![h] = [pc |-> "stop", body |-> b,
                                                          gen |-> 0]]
                /\ UNCHANGED resp
           ELSE /\ resp' = [body |-> b, status |-> o.status, text |-> o.text]
                /\ UNCHANGED handler
    /\ UNCHANGED <<now, ticks, timer, end, endGen, gor, switchOn, ctxDone, mainpc>>
    /\ UNCHANGED <<storeVars, lockVars>>

\* Reset: s.timer.Stop()
ResetStop(h) ==
    /\ handler[h].pc = "stop"
    /\ LET r == TimerStop(timer)
       IN  /\ timer' = r.timer
           /\ handler' = [handler EXCEPT ![h].pc =
                              IF r.ret THEN "reset" ELSE "drain"]
    /\ UNCHANGED <<now, ticks, end, endGen, gor, switchOn, ctxDone, mainpc, resp>>
    /\ UNCHANGED <<storeVars, lockVars>>

\* Reset: the select that takes an expiry off the channel if there is one
ResetDrain(h) ==
    /\ handler[h].pc = "drain"
    /\ timer' = [timer EXCEPT !.c = -1]
    /\ handler' = [handler EXCEPT ![h].pc = "reset"]
    /\ UNCHANGED <<now, ticks, end, endGen, gor, switchOn, ctxDone, mainpc, resp>>
    /\ UNCHANGED <<storeVars, lockVars>>

\* Reset: s.timer.Reset(t)
ResetTimer(h) ==
    /\ handler[h].pc = "reset"
    /\ timer' = TimerReset(timer, now, PutOutcome(handler[h].body).secs)
    /\ handler' = [handler EXCEPT ![h].pc = "store", ![h].gen = timer.gen + 1]
    /\ UNCHANGED <<now, ticks, end, endGen, gor, switchOn, ctxDone, mainpc, resp>>
    /\ UNCHANGED <<storeVars, lockVars>>

\* Reset: s.end.Store(time.Now().Add(t)), and the answer of the handler
ResetStore(h) ==
    /\ handler[h].pc = "store"
    /\ resp.status = 0
    /\ end' = now + PutOutcome(handler[h].body).secs
    /\ endGen' = handler[h].gen
    /\ resp' = [body |-> handler[h].body, status |-> 200, text |-> "success"]
    /\ handler' = [handler EXCEPT ![h] = NoRequest]
    /\ UNCHANGED <<now, ticks, timer, gor, switchOn, ctxDone, mainpc>>
    /\ UNCHANGED <<storeVars, lockVars>>

\* the answer is sent; the answers are sent one at a time
Respond ==
    /\ resp.status # 0
    /\ resp' = NoAnswer
    /\ UNCHANGED <<now, ticks, timer, end, endGen, handler, gor, switchOn, ctxDone,
                   mainpc>>
    /\ UNCHANGED <<storeVars, lockVars>>

\* the goroutine of main: case <-t.C()
Receive ==
    /\ gor.pc = "select"
    /\ timer.c # -1
    /\ gor' = [pc |-> "on", gen |-> timer.c]
    /\ timer' = [timer EXCEPT !.c = -1]
    /\ UNCHANGED <<now, ticks, end, endGen, handler, switchOn, ctxDone, mainpc, resp>>
    /\ UNCHANGED <<storeVars, lockVars>>

\* the goroutine of main: a.Switch.On.SetValue(true)
SwitchOn ==
    /\ gor.pc = "on"
    /\ switchOn' = [on |-> TRUE, gen |-> gor.gen]
    /\ gor' = [gor EXCEPT !.pc = "select"]
    /\ UNCHANGED <<now, ticks, timer, end, endGen, handler, ctxDone, mainpc, resp>>
    /\ UNCHANGED <<storeVars, lockVars>>

\* a goroutine that stops the timer on ctx.Done() and goes on selecting
GoroutineExitNoReturn ==
    /\ gor.pc = "select"
    /\ ctxDone
    /\ timer' = TimerStop(timer).timer
    /\ UNCHANGED <<now, ticks, end, endGen, handler, gor, switchOn, ctxDone, mainpc,
                   resp>>
    /\ UNCHANGED <<storeVars, lockVars>>

\* the goroutine of main: case <-ctx.Done()
GoroutineExit ==
    /\ gor.pc = "select"
    /\ ctxDone
    /\ timer' = TimerStop(timer).timer
    /\ gor' = [gor EXCEPT !.pc = "exit"]
    /\ UNCHANGED <<now, ticks, end, endGen, handler, switchOn, ctxDone, mainpc, resp>>
    /\ UNCHANGED <<storeVars, lockVars>>

\* a signal arrives and its goroutine cancels the context
Signal ==
    /\ mainpc = "running"
    /\ ~ctxDone
    /\ ctxDone' = TRUE
    /\ UNCHANGED <<now, ticks, timer, end, endGen, handler, gor, switchOn, mainpc, resp>>
    /\ UNCHANGED <<storeVars, lockVars>>

TimerNext ==
    \/ MainStop
    \/ Tick
    \/ Elapse
    \/ Expire
    \/ \E h \in Handlers, b \in Bodies : HandlePut(h, b)
    \/ \E h \in Handlers : ResetStop(h)
    \/ \E h \in Handlers : ResetDrain(h)
    \/ \E h \in Handlers : ResetTimer(h)
    \/ \E h \in Handlers : ResetStore(h)
    \/ Respond
    \/ Receive
    \/ SwitchOn
    \/ GoroutineExit
    \/ Signal

SpecTimer == TimerInit /\ [][TimerNext]_vars

\* the scheduler runs every goroutine that can take a step (a select whose
\* only ready case is ctx.Done() takes it), the clock reaches the instant of
\* an armed timer, and the runtime fires a timer that is due; requests and
\* signals arrive or not
TimerFairness ==
    /\ WF_vars(MainStop)
    /\ WF_vars(Elapse)
    /\ WF_vars(Expire)
    /\ WF_vars(Receive)
    /\ WF_vars(SwitchOn)
    /\ WF_vars(GoroutineExit)
    /\ WF_vars(Respond)
    /\ \A h \in Handlers :
         WF_vars(ResetStop(h) \/ ResetDrain(h) \/ ResetTimer(h) \/ ResetStore(h))

FairNext ==
    \/ MainStop
    \/ Tick
    \/ Elapse
    \/ Expire
    \/ \E h \in Handlers, b \in LiveBodies : HandlePut(h, b)
    \/ \E h \in Handlers : ResetStop(h)
    \/ \E h \in Handlers : ResetDrain(h)
    \/ \E h \in Handlers : ResetTimer(h)
    \/ \E h \in Handlers : ResetStore(h)
    \/ Respond
    \/ Receive
    \/ SwitchOn
    \/ GoroutineExit
    \/ Signal

SpecTimerFair == TimerInit /\ [][FairNext]_vars /\ TimerFairness

TimerTypeOK ==
    /\ now \in Nat
    /\ ticks \in 0..MaxTicks
    /\ timer.gen \in 0..MaxPuts
    /\ timer.c \in -1..MaxPuts
    /\ \A h \in Handlers :
         handler[h].pc \in {"idle", "stop", "drain", "reset", "store"}
    /\ resp.status \in {0, 200, 400}
    /\ gor.pc \in {"none", "select", "on", "exit"}
    /\ mainpc \in {"created", "running"}

\* the seconds a body asks for: a missing field counts as 0
AskedSeconds(b) == IF b.hasSeconds THEN b.seconds ELSE 0

\* a body of valid JSON, of 1024 bytes at most, with no field but an integer
\* "seconds", which is missing or within 0..2592000
ValidPut(b) ==
    /\ b.bytes > 0
    /\ b.bytes <= 1024
    /\ b.wellFormed
    /\ ~b.extra
    /\ b.hasSeconds => b.isInt
    /\ AskedSeconds(b) >= 0
    /\ AskedSeconds(b) <= 2592000

\* a body that is empty or oversized, is not JSON, has an unknown field, has
\* a "seconds" that is not an integer, or one that is below 0 or above 2592000
RejectedPut(b) ==
    \/ b.bytes = 0
    \/ b.bytes > 1024
    \/ ~b.wellFormed
    \/ b.extra
    \/ b.hasSeconds /\ ~b.isInt
    \/ b.hasSeconds /\ b.isInt /\ (b.seconds < 0 \/ b.seconds > 2592000)

\* C17: a PUT /timer with a valid body, its seconds within 0..2592000 and a
\* missing field counting as 0, is never answered with an error; its
\* s.timer.Reset arms the timer for the instant now + seconds, the timer does
\* not fire before that instant, and with the answer 200 {"success":true}
\* End() is now + seconds.
C17_ValidPutResets ==
    [][/\ (resp.status = 0 /\ resp'.status # 0 /\ ValidPut(resp'.body))
            => /\ resp'.status = 200
               /\ resp'.text = "success"
               /\ end' = now + AskedSeconds(resp'.body)
       /\ \A h \in Handlers :
            (handler[h].pc = "reset" /\ handler'[h].pc = "store")
                => /\ timer'.armed
                   /\ timer'.when = now + AskedSeconds(handler[h].body)
                   /\ timer'.c = -1
       /\ (timer.c = -1 /\ timer'.c # -1)
            => (timer.armed /\ now >= timer.when)]_vars

\* a PUT with the largest seconds allowed has been answered with 200, and the
\* timer is armed for the instant that End() returns
C17_Witness ==
    /\ resp.status = 200
    /\ resp.body = Object(2592000)
    /\ timer.armed
    /\ timer.when = now + 2592000
    /\ end = now + 2592000

\* C18: a PUT /timer that is rejected is answered with 400 and leaves the
\* timer as it was: its end time, whether it is armed and for when, its
\* channel, the goroutine and the switch; only valid requests reach t.Reset.
C18_RejectedPutChangesNothing ==
    [][/\ (resp.status = 0 /\ resp'.status # 0 /\ RejectedPut(resp'.body))
            => /\ resp'.status = 400
               /\ timer' = timer
               /\ end' = end
               /\ handler' = handler
               /\ gor' = gor
               /\ switchOn' = switchOn
       /\ \A h \in Handlers :
            handler'[h].pc # "idle" => ~RejectedPut(handler'[h].body)]_vars

\* an oversized PUT has been answered with 400 while the timer is armed
C18_Witness ==
    /\ resp.status = 400
    /\ resp.body = B_oversized
    /\ timer.armed
    /\ timer.gen = 1
    /\ end = timer.when

\* C19: after the timer is armed for an accepted PUT, the timer fires and the
\* goroutine of main turns the switch on for that expiry, unless a later PUT
\* is accepted or the program is shut down.
C19_EventuallySwitchedOn ==
    \A g \in 1..MaxPuts :
        (timer.gen = g) ~> (switchOn.gen = g \/ timer.gen > g \/ ctxDone)

\* the switch has been turned on by the timer of a PUT of 2592000 seconds,
\* with no shutdown
C19_Witness ==
    /\ switchOn.on
    /\ switchOn.gen = 1
    /\ timer.gen = 1
    /\ now >= 2592000
    /\ ~ctxDone

\* C20: main stops the timer it creates, so the goroutine does not turn the
\* switch on before the timer is armed for the first accepted PUT.
C20_NoSwitchOnBeforeFirstPut ==
    timer.gen = 0 =>
        /\ ~switchOn.on
        /\ gor.pc # "on"
        /\ mainpc = "running" => timer.c = -1

\* main is running, the goroutine waits, a second has passed, a PUT has been
\* rejected, and the switch is off
C20_Witness ==
    /\ mainpc = "running"
    /\ gor.pc = "select"
    /\ timer.gen = 0
    /\ ~timer.armed
    /\ ticks >= 1
    /\ resp.status = 400
    /\ ~switchOn.on

\* C21: Stop() on a timer that is armed and has not fired returns true (Reset
\* then skips its drain), leaves the timer stopped with an empty channel, and
\* a stopped timer with an empty channel stays so until a Reset arms it again:
\* no expiry is delivered on C() in between.
C21_StopPreventsExpiry ==
    [][/\ \A h \in Handlers :
            (handler[h].pc = "stop" /\ handler'[h].pc # "stop" /\ timer.armed)
                => /\ handler'[h].pc = "reset"
                   /\ ~timer'.armed
                   /\ timer'.c = -1
       /\ (mainpc = "created" /\ mainpc' = "running")
            => (~timer'.armed /\ timer'.c = -1)
       /\ (gor.pc = "select" /\ gor'.pc = "exit")
            => (~timer'.armed /\ timer'.c = -1)
       /\ (~timer.armed /\ timer.c = -1 /\ timer'.gen = timer.gen)
            => /\ ~timer'.armed
               /\ timer'.c = -1
               /\ gor.pc # "on" => gor'.pc # "on"]_vars

\* the timer armed by a PUT for an instant still ahead has been stopped by the
\* goroutine of main, a second has passed, and nothing was delivered
C21_Witness ==
    /\ gor.pc = "exit"
    /\ timer.gen = 1
    /\ timer.when > now
    /\ ~timer.armed
    /\ timer.c = -1
    /\ ticks >= 1
    /\ ~switchOn.on

\* C22: TimeRemaining() is never negative, and it is 0 whenever the timer is
\* not set: stopped by main right after its creation, stopped after a Reset,
\* or expired.
C22_Original ==
    /\ TimeRemaining(end, now) >= 0
    /\ ~timer.armed => TimeRemaining(end, now) = 0

\* C23: once the context is cancelled the goroutine of main eventually takes
\* ctx.Done(), stops the timer and returns; it returns only on a cancelled
\* context, and after it has returned the switch is never turned on, whatever
\* PUT requests arm the timer afterwards.
C23_ShutdownStopsTimerGoroutine ==
    /\ ctxDone ~> (gor.pc = "exit")
    /\ [][/\ (gor.pc # "exit" /\ gor'.pc = "exit")
               => (ctxDone /\ ~timer'.armed /\ timer'.c = -1)
          /\ gor.pc = "exit"
               => (gor'.pc = "exit" /\ switchOn' = switchOn)]_vars

\* the goroutine has returned, a Reset has armed the timer after that, its
\* expiry sits in the channel, and the switch is off
C23_Witness ==
    /\ ctxDone
    /\ gor.pc = "exit"
    /\ timer.gen = 1
    /\ timer.c = 1
    /\ ~switchOn.on

----------------------------------------------------------------------------
(* The fallback of nvramKey, Delete, Get("configHash"), repeated calls. *)

\* a pairing-suffixed key whose part before ".pairing" is not valid hex
FallbackKey(k) == IsPairing(k) /\ DecodeString(TrimSuffix(k, S_pairing)).err

\* a variable of the store without the p_ sub-prefix whose name, stripped of
\* the prefix, ends with ".pairing"
FallbackVariable(nk) ==
    /\ HasPrefix(nk, S_hkt)
    /\ ~HasPrefix(nk, S_hkt \o S_p)
    /\ HasSuffix(TrimPrefix(nk, S_hkt), S_pairing)

C26_Original ==
    (Listed /\ last.key # S_pairing) =>
        /\ \A k \in live : HasSuffix(k, last.key) => k \in Range(last.keys)
        /\ \A i \in 1..Len(last.keys) :
              /\ last.keys[i] \in Keys
              /\ HasSuffix(last.keys[i], last.key)
              /\ nvramKey(last.keys[i]) \in DOMAIN nvram

----------------------------------------------------------------------------
(* Get("configHash") over a namespace that another program has written. *)

\* the characters of the texts: "4", "F" and "z"
TextChars == {52, 70, 122}

\* the texts another program may leave under hkt_configHash
StoredTexts == UNION {[1..m -> TextChars] : m \in 0..MaxText}

\* the namespace belongs to the router: hkt_configHash holds a text written
\* with nvram set by another program, or by an older version of this one
StoredInit ==
    /\ \E text \in StoredTexts :
          /\ nvram = (S_lan :> <<74>>) @@ ((S_hkt \o S_configHash) :> text)
          /\ flash = nvram
    /\ commitCount = 0
    /\ last = NoOp
    /\ nops = 0
    /\ pairingMuts = 0
    /\ live = {}
    /\ deleted = {}
    /\ lastMut = NoOp
    /\ faults = 0
    /\ LockUnused
    /\ TimerUnused

StoredNext == \E k \in GetKeys : Get(k)

SpecStored == StoredInit /\ [][StoredNext]_vars

\* every character of s is a hex digit and s has an even length
ValidHex(s) == Len(s) % 2 = 0 /\ \A i \in 1..Len(s) : IsHexDigit(s[i])

\* the last operation was a Get("configHash") whose nvram get succeeded and
\* found a text that is not empty and not valid hex
GotBadConfigHash ==
    /\ last.op = "Get"
    /\ last.key = S_configHash
    /\ last.fail = "none"
    /\ last.raw # <<>>
    /\ ~ValidHex(last.raw)

\* b is the decoding of the pairs of hex digits at the start of s, up to the
\* first pair that is not one or to the end of the pairs
DecodedPrefix(s, b) ==
    /\ 2 * Len(b) <= Len(s)
    /\ \A i \in 1..Len(b) :
          /\ IsHexDigit(s[2 * i - 1])
          /\ IsHexDigit(s[2 * i])
          /\ b[i] = 16 * FromHexChar(s[2 * i - 1]) + FromHexChar(s[2 * i])
    /\ 2 * Len(b) + 2 <= Len(s)
          => (~IsHexDigit(s[2 * Len(b) + 1]) \/ ~IsHexDigit(s[2 * Len(b) + 2]))

\* C28 as stated: a Get("configHash") that finds a non-empty text that is not
\* valid hex returns a decode error and no bytes.
C28_Original ==
    GotBadConfigHash => (last.err = "decode" /\ last.ret = <<>>)

\* C28, amended: a Get("configHash") that finds a non-empty text that is not
\* valid hex returns a decode error, together with the bytes of the pairs of
\* hex digits that come before the first error; it changes neither copy of
\* the namespace and calls no commit.
C28_DecodeErrorReturned ==
    [][GotBadConfigHash' =>
          /\ last'.err = "decode"
          /\ DecodedPrefix(last'.raw, last'.ret)
          /\ last'.calls = <<"get">>
          /\ nvram' = nvram
          /\ flash' = flash
          /\ commitCount' = commitCount]_vars

\* hkt_configHash holds "4Fz", and Get("configHash") has returned the decode
\* error with the byte 0x4F
C28_Witness ==
    /\ GotBadConfigHash
    /\ last.raw = <<52, 70, 122>>
    /\ last.err = "decode"
    /\ last.ret = <<79>>
    /\ nvram[S_hkt \o S_configHash] = <<52, 70, 122>>

----------------------------------------------------------------------------
(* Repeated calls. *)

\* this step is a Set or a Delete that succeeds and repeats the operation
\* before it, which succeeded too: a Set of the same key and value, or a
\* Delete of the same key
Repeats ==
    /\ nops' = nops + 1
    /\ last.op \in {"Set", "Delete"}
    /\ last.err = "nil"
    /\ last'.op = last.op
    /\ last'.key = last.key
    /\ last'.value = last.value
    /\ last'.err = "nil"

----------------------------------------------------------------------------
(* The nvram commands of concurrent callers. *)

\* this step is an nvram command of caller q: its set, get, unset or show, or
\* its commit
AdapterCall(q) ==
    \/ caller[q].pc = "call" /\ caller'[q].pc # "call"
    \/ caller[q].pc = "commit" /\ caller'[q].pc # "commit"

\* C30: while a Set or a Delete is between its Lock and its return, between
\* its set or unset and its commit in particular, no nvram command of another
\* caller runs, whatever that caller's operation is; a Get or a
\* KeysWithSuffix runs its command only when no Set and no Delete holds the
\* lock.
C30_NoCallInsideMutation ==
    [][\A p, q \in Callers :
          (/\ p # q
           /\ InCS(p)
           /\ caller[p].op.name \in {"Set", "Delete"})
              => ~AdapterCall(q)]_vars

\* a Set of a pairing key is between its set and its commit while a
\* KeysWithSuffix of another caller waits for the lock
C30_Witness ==
    \E p, q \in Callers :
        /\ caller[p].pc = "commit"
        /\ caller[p].op.name = "Set"
        /\ caller[q].pc = "lock"
        /\ caller[q].op.name = "KeysWithSuffix"

----------------------------------------------------------------------------
(* Reset called by PUT handlers that run side by side. *)

\* the bodies of the PUTs: {"seconds":0} and {"seconds":1}
ResetBodies == {Object(0), Object(1)}

\* a PUT /timer with a valid body arrives at the first handler that is free,
\* passes the decoding and the bounds, and goes on to t.Reset
PutAccepted(h, b) ==
    /\ mainpc = "running"
    /\ handler[h].pc = "idle"
    /\ \A g \in Handlers : g < h => handler[g].pc # "idle"
    /\ PutOutcome(b).status = 200
    /\ timer.gen + Cardinality(InFlight) < MaxResets
    /\ handler' = [handler EXCEPT ![h] = [pc |-> "stop", body |-> b, gen |-> 0]]
    /\ UNCHANGED <<now, ticks, timer, end, endGen, gor, switchOn, ctxDone,
                   mainpc, resp>>
    /\ UNCHANGED <<storeVars, lockVars>>

ResetsNext ==
    \/ MainStop
    \/ Tick
    \/ Elapse
    \/ Expire
    \/ \E h \in Handlers, b \in ResetBodies : PutAccepted(h, b)
    \/ \E h \in Handlers : ResetStop(h)
    \/ \E h \in Handlers : ResetDrain(h)
    \/ \E h \in Handlers : ResetTimer(h)
    \/ \E h \in Handlers : ResetStore(h)
    \/ Respond
    \/ Receive
    \/ SwitchOn
    \/ GoroutineExit
    \/ Signal

SpecResets == TimerInit /\ [][ResetsNext]_vars

\* C31: Reset discards a stale expiry. When s.timer.Reset returns the channel
\* is empty; an expiry in the channel is always the one of the arming in
\* force, so the goroutine of main never receives the expiry of an earlier
\* arming; and it turns the switch on at most once for each arming, the
\* armings it acts on coming in increasing order.
C31_StaleExpiryDiscarded ==
    [][/\ timer'.c # -1 => timer'.c = timer'.gen
       /\ \A h \in Handlers :
            (handler[h].pc = "reset" /\ handler'[h].pc = "store")
                => (timer'.c = -1 /\ timer'.gen = timer.gen + 1)
       /\ (gor.pc = "select" /\ gor'.pc = "on")
            => (gor'.gen = timer.gen /\ gor'.gen > switchOn.gen)
       /\ (gor.pc = "on" /\ gor'.pc = "select")
            => (switchOn'.gen = gor.gen /\ gor.gen > switchOn.gen)]_vars

\* the timer of the first PUT, due at once, was never received; the second
\* PUT has reset the timer and returned, and the expiry in the channel is the
\* one of the second arming
C31_Witness ==
    /\ timer.gen = 2
    /\ timer.c = 2
    /\ endGen = 2
    /\ \A h \in Handlers : handler[h].pc = "idle"
    /\ gor = [pc |-> "select", gen |-> 0]
    /\ ~switchOn.on
    /\ ticks = 0

\* C32: once the Reset calls of concurrent PUT handlers have all returned,
\* the end time that End() and TimeRemaining() read was stored by the Reset
\* call that armed the timer last.
C32_Original ==
    (\A h \in Handlers : handler[h].pc = "idle") => endGen = timer.gen

====
